---- MODULE Spec2Model ----
(***************************************************************************)
(* A model of the modelsandbox graph assembly and evaluation engine:       *)
(* processors (function / schema), containers (Layer / Sequence), their    *)
(* derived properties (params, returns, hidden, tagged) and the analyze    *)
(* algorithms that thread a value set through the tree.                    *)
(*                                                                         *)
(* The tree is a flat table `nodes`: node 1 is the root, a container's     *)
(* `members` is the ordered list of the table indices of its members.      *)
(* A value set (a Python dict of keyword arguments) is a function from     *)
(* names to values.  Wrapped callables are black boxes: the value a        *)
(* function processor returns is the uninterpreted term                    *)
(* [fn |-> label, args |-> keyword binding].                               *)
(* A hidden_param that is a Python list is kept as the set of its names    *)
(* (the order and the multiplicity of the list are abstracted).            *)
(*                                                                         *)
(* Spec assembles a tree under the root Sequence of a Model and evaluates  *)
(* it; SpecHidden assigns hidden_param and reads hidden; SpecRepeat        *)
(* evaluates a tree with hidden_param assignments repeatedly; SpecProc     *)
(* evaluates one processor on its own; SpecSchema constructs schema        *)
(* processors from schema mappings; SpecBuild constructs, relabels and     *)
(* retags single components and offers them to containers as members;     *)
(* SpecCursor moves the model cursor (enter, exit, reset) while members    *)
(* are added at its position; SpecLookup looks members up by position and  *)
(* by path; SpecModel assembles and evaluates a Model of modelsandbox_old  *)
(* with values for its advertised parameters.                              *)
(***************************************************************************)
EXTENDS Integers, Sequences, FiniteSets, TLC

VARIABLES
    nodes,      \* the component tree (sequence of node records)
    result,     \* outcome of the last analyze / assignment (or NoResult)
    calls,      \* the set of member invocations of the last analyze
    assigned,   \* what the caller last assigned to each node's hidden_param
    cursor      \* the model's cursor: its index and the with-blocks open on it

vars == <<nodes, result, calls, assigned, cursor>>

---------------------------------------------------------------------------
(* Bounds of the model *)

\* the number of components of a tree, the root included
MaxNodes == 5

---------------------------------------------------------------------------
(* Value sets *)

EmptyMap == [k \in {} |-> 0]

Range(s) == {s[i] : i \in DOMAIN s}

\* a merge that keeps the value it already has
MergeKeep(a, b) ==
    [k \in (DOMAIN a) \cup (DOMAIN b) |-> IF k \in DOMAIN a THEN a[k] ELSE b[k]]

\* dict.update / {**a, **b}
Merge(a, b) ==
    [k \in (DOMAIN a) \cup (DOMAIN b) |-> IF k \in DOMAIN b THEN b[k] ELSE a[k]]

\* {k: v for k, v in a.items() if k in S}
Restrict(a, S) == [k \in (DOMAIN a) \cap S |-> a[k]]

Atom(n) == [atom |-> n]
CallValue(label, binding) == [fn |-> label, args |-> binding]
Group(g) == [group |-> g]
IsGroup(v) == DOMAIN v = {"group"}
IsAtom(v) == DOMAIN v = {"atom"}

---------------------------------------------------------------------------
(* hidden_param values *)

HpFalse == [b |-> "False", l |-> {}]
HpTrue == [b |-> "True", l |-> {}]
HpList(S) == [b |-> "list", l |-> S]

---------------------------------------------------------------------------
(* Schema decision tables.  A Python dict is [dict |-> <<items>>], items   *)
(* in stored order; a key is numeric [num |-> n] or a name [name |-> s];   *)
(* a scalar leaf is an atom.                                               *)

Num(n) == [num |-> n]
Name(s) == [name |-> s]
Item(k, v) == [k |-> k, v |-> v]
Dict(items) == [dict |-> items]
IsDict(d) == DOMAIN d = {"dict"}
IsNum(k) == DOMAIN k = {"num"}

NoSchema ==
    [label |-> "", parameters |-> <<>>, actions |-> <<>>, data |-> Atom(0)]

\* lambda a, b: a < b, and the three others
Tester(action, a, b) ==
    CASE action = "lt" -> a < b
      [] action = "gt" -> a > b
      [] action = "lte" -> a <= b
      [] action = "gte" -> a >= b
      [] OTHER -> FALSE

\* a step that descends into the first stored value, whatever the key
SchemaStepFirst(data, value, action) ==
    IF IsDict(data) /\ IsAtom(value) /\ Len(data.dict) > 0
    THEN [ok |-> TRUE, data |-> data.dict[1].v]
    ELSE [ok |-> FALSE, data |-> data]

\* a step whose comparison picks the key of least magnitude that passes
SchemaStepSmallest(data, value, action) ==
    IF ~IsDict(data) \/ ~IsAtom(value) THEN [ok |-> FALSE, data |-> data]
    ELSE LET items == data.dict
             hit == {j \in DOMAIN items :
                        /\ IsNum(items[j].k)
                        /\ IF action = "get" THEN items[j].k.num = value.atom
                           ELSE Tester(action, value.atom, items[j].k.num)}
         IN  IF hit = {} THEN [ok |-> FALSE, data |-> data]
             ELSE [ok |-> TRUE, data |->
                      items[CHOOSE j \in hit :
                               \A i \in hit : items[j].k.num <= items[i].k.num].v]

\* One (parameter, action) step of SchemaProcessor.analyze: the try block.
\* Any exception inside it (a missing key, no key passing the test, indexing
\* a scalar, a key that is no number) is re-raised as ValueError.
SchemaStep(data, value, action) ==
    LET fail == [ok |-> FALSE, data |-> data]
    IN  IF ~IsDict(data) \/ ~IsAtom(value) THEN fail
        ELSE LET items == data.dict
                 n == Len(items)
             IN  IF action = "get"
                 THEN LET hit == {j \in 1..n : items[j].k = Num(value.atom)}
                      IN  IF hit = {} THEN fail
                          ELSE [ok |-> TRUE, data |-> items[CHOOSE j \in hit : TRUE].v]
                 ELSE LET stop == {j \in 1..n :
                                      \/ ~IsNum(items[j].k)
                                      \/ Tester(action, value.atom, items[j].k.num)}
                      IN  IF stop = {} THEN fail
                          ELSE LET j == CHOOSE a \in stop : \A b \in stop : a <= b
                               IN  IF ~IsNum(items[j].k) THEN fail
                                   ELSE [ok |-> TRUE, data |-> items[j].v]

\* The schema's declared parameter list (self.parameters)
SchemaParameters(schema) == schema.parameters

MinLen(a, b) == IF Len(a) <= Len(b) THEN Len(a) ELSE Len(b)

RECURSIVE SchemaWalk(_, _, _, _)
\* for parameter, action in zip(self.parameters, self.actions)
SchemaWalk(schema, handed, i, data) ==
    IF i > MinLen(SchemaParameters(schema), schema.actions)
    THEN [ok |-> TRUE, err |-> "", data |-> data]
    ELSE LET parameter == SchemaParameters(schema)[i]
         IN  IF parameter \notin DOMAIN handed
             THEN [ok |-> FALSE, err |-> "KeyError(parameter)", data |-> data]
             ELSE LET step == SchemaStep(data, handed[parameter], schema.actions[i])
                  IN  IF ~step.ok
                      THEN [ok |-> FALSE, err |-> "ValueError", data |-> data]
                      ELSE SchemaWalk(schema, handed, i + 1, step.data)

\* A leaf dict as a value set (its keys are names)
LeafMap(data) ==
    LET items == data.dict
        keys == {items[j].k.name : j \in 1..Len(items)}
    IN  [k \in keys |->
            items[CHOOSE j \in 1..Len(items) : items[j].k = Name(k)].v]

\* an evaluation that returns the data it was left with when a lookup fails
SchemaAnalyzeDefault(label, schema, handed) ==
    LET w == SchemaWalk(schema, handed, 1, schema.data)
    IN  IF ~w.ok /\ w.err # "ValueError"
        THEN [ok |-> FALSE, err |-> w.err, out |-> EmptyMap]
        ELSE [ok |-> TRUE, err |-> "", out |-> (label :> w.data)]

\* SchemaProcessor.analyze
SchemaAnalyze(label, schema, handed) ==
    LET w == SchemaWalk(schema, handed, 1, schema.data)
    IN  IF ~w.ok THEN [ok |-> FALSE, err |-> w.err, out |-> EmptyMap]
        ELSE IF IsDict(w.data)
             THEN [ok |-> TRUE, err |-> "", out |-> LeafMap(w.data)]
             ELSE [ok |-> TRUE, err |-> "", out |-> (label :> w.data)]

RECURSIVE FirstLeaf(_, _)
\* for param in self.params: data = list(data.values())[0]
FirstLeaf(data, n) ==
    IF n = 0 THEN data ELSE FirstLeaf(data.dict[1].v, n - 1)

\* SchemaProcessor.returns
SchemaReturns(label, schema) ==
    LET data == FirstLeaf(schema.data, Len(SchemaParameters(schema)))
    IN  IF IsDict(data)
        THEN {data.dict[j].k.name : j \in 1..Len(data.dict)}
        ELSE {label}

---------------------------------------------------------------------------
(* Function processors *)

\* a call that binds whatever it is given
PyCallLenient(formals, kwargs) == DOMAIN kwargs \subseteq Range(formals)

\* self._callable_(**params): Python binds keyword arguments to the
\* callable's formal arguments; an unexpected keyword or a missing argument
\* is a TypeError.
PyCallOk(formals, kwargs) == DOMAIN kwargs = Range(formals)

\* a function processor that passes on what it was handed
FunctionAnalyzePassing(label, formals, handed) ==
    IF DOMAIN handed = Range(formals)
    THEN [ok |-> TRUE, err |-> "",
          out |-> Merge(handed, label :> CallValue(label, handed))]
    ELSE [ok |-> FALSE, err |-> "TypeError", out |-> EmptyMap]

\* FunctionProcessor.analyze
FunctionAnalyze(label, formals, handed) ==
    IF PyCallOk(formals, handed)
    THEN [ok |-> TRUE, err |-> "", out |-> (label :> CallValue(label, handed))]
    ELSE [ok |-> FALSE, err |-> "TypeError", out |-> EmptyMap]

\* FunctionProcessor.params
FunctionParams(formals) == Range(formals)

\* FunctionProcessor.returns
FunctionReturns(label) == <<label>>

---------------------------------------------------------------------------
(* The component tree *)

Root == 1

FunctionNode(label, formals, tags) ==
    [kind |-> "function", label |-> label, ordinal |-> 0, formals |-> formals,
     tags |-> tags, hp |-> HpFalse, members |-> <<>>, schema |-> NoSchema]

SchemaNode(schema, tags) ==
    [kind |-> "schema", label |-> schema.label, ordinal |-> 0,
     formals |-> schema.parameters, tags |-> tags, hp |-> HpFalse,
     members |-> <<>>, schema |-> schema]

ContainerNode(kind, ordinal) ==
    [kind |-> kind, label |-> "", ordinal |-> ordinal, formals |-> <<>>,
     tags |-> {}, hp |-> HpFalse, members |-> <<>>, schema |-> NoSchema]

IsContainer(nd) == nd.kind \in {"layer", "sequence"}
IsProcessor(nd) == nd.kind \in {"function", "schema"}

Containers(T) == {n \in DOMAIN T : IsContainer(T[n])}
Processors(T) == {n \in DOMAIN T : IsProcessor(T[n])}

---------------------------------------------------------------------------
(* Derived properties.  Reading `hidden` of a container whose hidden_param *)
(* is a list extends that very list (hidden = self._hidden_param;          *)
(* hidden.extend(member.hidden)), so every read returns the value and the  *)
(* tree it leaves behind.                                                  *)

\* BaseCallable.hidden
BaseCallableHidden(hp, returns) ==
    CASE hp.b = "True" -> returns
      [] hp.b = "False" -> {}
      [] OTHER -> hp.l

\* BaseContainer.hidden: the list the members' hidden names are added to
ContainerOwnHidden(hp) == IF hp.b = "False" THEN {} ELSE hp.l

\* Sequence.params / Sequence.returns: set(all) - set(self.hidden)
MinusHidden(all, hidden) == all \ hidden

RECURSIVE Read(_, _, _)
RECURSIVE ReadMembers(_, _, _)

\* for member in self._members: acc.extend(member.<prop>)
ReadMembers(T, ms, prop) ==
    IF ms = <<>> THEN [val |-> {}, T |-> T]
    ELSE LET h == Read(T, Head(ms), prop)
             r == ReadMembers(h.T, Tail(ms), prop)
         IN  [val |-> h.val \cup r.val, T |-> r.T]

Read(T, n, prop) ==
    LET nd == T[n]
    IN  CASE nd.kind = "function" ->
               [T |-> T, val |->
                   CASE prop = "params" -> FunctionParams(nd.formals)
                     [] prop = "returns" -> Range(FunctionReturns(nd.label))
                     [] OTHER -> BaseCallableHidden(nd.hp,
                                     Range(FunctionReturns(nd.label)))]
          [] nd.kind = "schema" ->
               [T |-> T, val |->
                   CASE prop = "params" -> Range(SchemaParameters(nd.schema))
                     [] prop = "returns" -> SchemaReturns(nd.label, nd.schema)
                     [] OTHER -> BaseCallableHidden(nd.hp,
                                     SchemaReturns(nd.label, nd.schema))]
          [] OTHER ->
               CASE prop = "all_params" -> ReadMembers(T, nd.members, "params")
                 [] prop = "all_returns" -> ReadMembers(T, nd.members, "returns")
                 [] prop = "hidden" ->
                      IF nd.hp.b = "True" THEN Read(T, n, "all_returns")
                      ELSE LET m == ReadMembers(T, nd.members, "hidden")
                               val == ContainerOwnHidden(nd.hp) \cup m.val
                           IN  [val |-> val,
                                T |-> IF nd.hp.b = "list"
                                      THEN [m.T EXCEPT ![n].hp.l = val]
                                      ELSE m.T]
                 [] prop = "params" ->
                      IF nd.kind = "layer" THEN Read(T, n, "all_params")
                      ELSE LET a == Read(T, n, "all_params")
                               h == Read(a.T, n, "hidden")
                           IN  [val |-> MinusHidden(a.val, h.val), T |-> h.T]
                 [] OTHER ->
                      IF nd.kind = "layer" THEN Read(T, n, "all_returns")
                      ELSE LET a == Read(T, n, "all_returns")
                               h == Read(a.T, n, "hidden")
                           IN  [val |-> MinusHidden(a.val, h.val), T |-> h.T]

Params(T, n) == Read(T, n, "params").val
Returns(T, n) == Read(T, n, "returns").val
Hidden(T, n) == Read(T, n, "hidden").val
AllReturns(T, n) == Read(T, n, "all_returns").val

RECURSIVE ProcessorsFlat(_, _)
RECURSIVE FlatMembers(_, _)

FlatMembers(T, ms) ==
    IF ms = <<>> THEN <<>>
    ELSE ProcessorsFlat(T, Head(ms)) \o FlatMembers(T, Tail(ms))

\* BaseContainer.processors_flat
ProcessorsFlat(T, n) ==
    IF IsProcessor(T[n]) THEN <<n>> ELSE FlatMembers(T, T[n].members)

\* BaseContainer.all_tags
AllTags(T, n) ==
    UNION {T[ProcessorsFlat(T, n)[i]].tags : i \in DOMAIN ProcessorsFlat(T, n)}

\* BaseContainer.tagged[tag]
Tagged(T, n, tag) ==
    SelectSeq(ProcessorsFlat(T, n), LAMBDA q : tag \in T[q].tags)

\* The processors that all_tags and tagged of ModelLayer (layer.py) work on:
\*   try: list(itertools.chain.from_iterable(self.processors))
\*   except TypeError: self.processors
\* The nested list of a member that is a container is flattened by one
\* level when every member is one; a processor among the members is not
\* iterable and the nested list is kept as it is.  Reading p.tags of an
\* element that is still a list raises AttributeError.
LayerPyProcessors(T, n) ==
    LET ms == T[n].members
        RECURSIVE Chain(_)
        Chain(q) == IF q = <<>> THEN <<>>
                    ELSE T[Head(q)].members \o Chain(Tail(q))
        level == IF \A i \in DOMAIN ms : IsContainer(T[ms[i]])
                 THEN Chain(ms) ELSE ms
    IN  IF \E i \in DOMAIN level : IsContainer(T[level[i]])
        THEN [ok |-> FALSE, err |-> "AttributeError", flat |-> <<>>]
        ELSE [ok |-> TRUE, err |-> "", flat |-> level]

---------------------------------------------------------------------------
(* Evaluation: Sequence.analyze (base.py) and ModelLayer.analyze           *)
(* (structure.py).  An evaluation returns                                  *)
(*   [ok, err, out, calls, T]:                                             *)
(* whether it returned or raised, the exception kind, the returned value   *)
(* set, the member invocations made (which member, by which container,     *)
(* the value set handed to it, its outcome) and the tree left behind.      *)

\* a failure that is swallowed: the evaluation returns nothing and goes on
RaiseSwallowed(err, cs, T) ==
    [ok |-> TRUE, err |-> "", out |-> EmptyMap, calls |-> cs, T |-> T]

Raise(err, cs, T) ==
    [ok |-> FALSE, err |-> err, out |-> EmptyMap, calls |-> cs, T |-> T]

Return(out, cs, T) ==
    [ok |-> TRUE, err |-> "", out |-> out, calls |-> cs, T |-> T]

CallEntry(m, by, handed, r) ==
    [node |-> m, by |-> by, handed |-> handed, ok |-> r.ok, out |-> r.out]

\* a Layer that filters the values accumulated so far
LayerHandedAccumulated(params, returns, mparams) ==
    Restrict(Merge(params, returns), mparams)

\* ModelLayer.analyze: params_i = {k: v for k, v in params.items()
\*                                 if k in component.params}
LayerHanded(params, returns, mparams) == Restrict(params, mparams)

\* a Layer that returns the results alone
LayerReturnResults(params, returns) == returns

\* ModelLayer.analyze: params.update(returns); return params
LayerReturn(params, returns) == Merge(params, returns)

\* a Sequence that hands every member its own incoming values
SequenceHandedIncoming(params, returns) == params

\* Sequence.analyze: layer.analyze(**returns)
SequenceHanded(params, returns) == returns

\* Sequence.analyze: return returns
SequenceReturn(params, returns) == returns

\* ModelLayer.analyze, one tag of the "Update tagged returns" loop:
\* {p.label: returns[p.label] for p in processors} raises KeyError when a
\* label is no key of returns; returns[tag].update(...) raises
\* AttributeError when returns[tag] is no mapping.
TagStep(returns, labels, tag) ==
    IF ~(labels \subseteq DOMAIN returns)
    THEN [ok |-> FALSE, err |-> "KeyError(label)", returns |-> returns]
    ELSE LET new == [l \in labels |-> returns[l]]
         IN  IF tag \in DOMAIN returns
             THEN IF IsGroup(returns[tag])
                  THEN [ok |-> TRUE, err |-> "", returns |->
                           Merge(returns, tag :> Group(Merge(returns[tag].group, new)))]
                  ELSE [ok |-> FALSE, err |-> "AttributeError", returns |-> returns]
             ELSE [ok |-> TRUE, err |-> "", returns |->
                      Merge(returns, tag :> Group(new))]

RECURSIVE TagLoop(_, _, _, _)
\* for tag, processors in self.tagged.items()
TagLoop(T, n, tags, returns) ==
    IF tags = {} THEN [ok |-> TRUE, err |-> "", returns |-> returns]
    ELSE LET tag == CHOOSE t \in tags : TRUE
             ps == Tagged(T, n, tag)
             step == TagStep(returns, {T[ps[i]].label : i \in DOMAIN ps}, tag)
         IN  IF ~step.ok THEN step
             ELSE TagLoop(T, n, tags \ {tag}, step.returns)

RECURSIVE Analyze(_, _, _)
RECURSIVE LayerLoop(_, _, _, _, _, _)
RECURSIVE SequenceLoop(_, _, _, _, _, _)

\* ModelLayer.analyze
LayerLoop(T, n, i, params, returns, cs) ==
    IF i > Len(T[n].members)
    THEN LET tg == TagLoop(T, n, AllTags(T, n), returns)
         IN  IF ~tg.ok THEN Raise(tg.err, cs, T)
             ELSE Return(LayerReturn(params, tg.returns), cs, T)
    ELSE LET m == T[n].members[i]
             \* `k in component.params` is evaluated once per key of params
             pr == IF DOMAIN params = {} THEN [val |-> {}, T |-> T]
                   ELSE Read(T, m, "params")
             handed == LayerHanded(params, returns, pr.val)
             r == Analyze(pr.T, m, handed)
             cs2 == cs \cup r.calls \cup {CallEntry(m, n, handed, r)}
         IN  IF ~r.ok THEN Raise(r.err, cs2, r.T)
             ELSE LayerLoop(r.T, n, i + 1, params, Merge(returns, r.out), cs2)

\* Sequence.analyze
SequenceLoop(T, n, i, params, returns, cs) ==
    IF i > Len(T[n].members)
    THEN Return(SequenceReturn(params, returns), cs, T)
    ELSE LET m == T[n].members[i]
             handed == SequenceHanded(params, returns)
             r == Analyze(T, m, handed)
             cs2 == cs \cup r.calls \cup {CallEntry(m, n, handed, r)}
         IN  IF ~r.ok THEN Raise(r.err, cs2, r.T)
             ELSE SequenceLoop(r.T, n, i + 1, params, Merge(returns, r.out), cs2)

Analyze(T, n, values) ==
    LET nd == T[n]
    IN  CASE nd.kind = "function" ->
               LET r == FunctionAnalyze(nd.label, nd.formals, values)
               IN  [ok |-> r.ok, err |-> r.err, out |-> r.out, calls |-> {}, T |-> T]
          [] nd.kind = "schema" ->
               LET r == SchemaAnalyze(nd.label, nd.schema, values)
               IN  [ok |-> r.ok, err |-> r.err, out |-> r.out, calls |-> {}, T |-> T]
          [] nd.kind = "layer" -> LayerLoop(T, n, 1, values, EmptyMap, {})
          [] OTHER -> SequenceLoop(T, n, 1, values, Merge(EmptyMap, values), {})

---------------------------------------------------------------------------
(* Inputs the actions draw from *)

\* wrapped callables: p(x), q(p), q(x, p), each with its tags
FunctionDefs ==
    { [label |-> "p", formals |-> <<"x">>, tags |-> {"t"}],
      [label |-> "q", formals |-> <<"p">>, tags |-> {"t"}],
      [label |-> "q", formals |-> <<"x", "p">>, tags |-> {}] }

\* a schema whose leaf is a mapping: s(x), get, {1: {"q": 7}}
SchemaLeafMapping ==
    [label |-> "s", parameters |-> <<"x">>, actions |-> <<"get">>,
     data |-> Dict(<<Item(Num(1), Dict(<<Item(Name("q"), Atom(7))>>))>>)]

\* a schema whose key may be produced by a processor: s(p), get, {2: 10}
SchemaScalarLeaf ==
    [label |-> "s", parameters |-> <<"p">>, actions |-> <<"get">>,
     data |-> Dict(<<Item(Num(2), Atom(10))>>)]

SchemaDefs ==
    { [schema |-> SchemaLeafMapping, tags |-> {"t"}],
      [schema |-> SchemaScalarLeaf, tags |-> {}] }

InputNames == {"x", "p", "t"}

InputValue(k) == Atom(CASE k = "x" -> 1 [] k = "p" -> 2 [] OTHER -> 3)

\* the keyword arguments of an analyze call
InputSets ==
    {[k \in S |-> InputValue(k)] : S \in {{}, {"x"}, {"x", "p"}, {"x", "t"}}}

\* The record of the last operation: its name, the node it was called on,
\* the keyword values or the value (arg) given, whether it returned (ok) or
\* raised (err), the value set (out) or the names returned, and whether it
\* left another tree behind (changed).
\* Cursor.__init__ / Cursor.reset: the index is empty, no with-block is open
NoCursor == [index |-> <<>>, open |-> <<>>]

NoResult ==
    [op |-> "none", target |-> 0, values |-> EmptyMap, arg |-> HpFalse,
     ok |-> TRUE, err |-> "", out |-> EmptyMap, names |-> {},
     changed |-> FALSE]

---------------------------------------------------------------------------
(* Construction (structure.py).  The tree is assembled in declaration      *)
(* order, as through the model cursor, which enters the last member of     *)
(* the current container: a member is added to the root or to a container  *)
(* that is the last member of a container it can be added to.              *)

RECURSIVE OpenContainers(_, _)
OpenContainers(T, n) ==
    LET ms == T[n].members
    IN  {n} \cup (IF ms # <<>> /\ IsContainer(T[ms[Len(ms)]])
                  THEN OpenContainers(T, ms[Len(ms)])
                  ELSE {})

CountKind(T, ms, kind) == Cardinality({i \in DOMAIN ms : T[ms[i]].kind = kind})

Append2(T, parent, nd) ==
    [Append(T, nd) EXCEPT ![parent].members = Append(@, Len(T) + 1)]

Built(nd) ==
    /\ result' = NoResult
    /\ calls' = {}
    /\ assigned' = Append(assigned, nd.hp)
    /\ UNCHANGED cursor

\* ModelSequence.add_layer
add_layer(s) ==
    /\ nodes[s].kind = "sequence"
    /\ Len(nodes) < MaxNodes
    /\ LET nd == ContainerNode("layer", CountKind(nodes, nodes[s].members, "layer") + 1)
       IN  nodes' = Append2(nodes, s, nd) /\ Built(nd)

\* ModelLayer.add_sequence
add_sequence(l) ==
    /\ nodes[l].kind = "layer"
    /\ Len(nodes) < MaxNodes
    /\ LET nd == ContainerNode("sequence",
                     CountKind(nodes, nodes[l].members, "sequence") + 1)
       IN  nodes' = Append2(nodes, l, nd) /\ Built(nd)

\* ModelLayer.add_function
add_function(l, def) ==
    /\ nodes[l].kind = "layer"
    /\ Len(nodes) < MaxNodes
    /\ LET nd == FunctionNode(def.label, def.formals, nodes[l].tags \cup def.tags)
       IN  nodes' = Append2(nodes, l, nd) /\ Built(nd)

\* ModelLayer.add_schema
add_schema(l, def) ==
    /\ nodes[l].kind = "layer"
    /\ Len(nodes) < MaxNodes
    /\ LET nd == SchemaNode(def.schema, nodes[l].tags \cup def.tags)
       IN  nodes' = Append2(nodes, l, nd) /\ Built(nd)

\* BaseContainer.members hands out the member list itself, and a processor
\* appended to it becomes a direct member of the Sequence
members_append(s, def) ==
    /\ nodes[s].kind = "sequence"
    /\ Len(nodes) < MaxNodes
    /\ LET nd == FunctionNode(def.label, def.formals, def.tags)
       IN  nodes' = Append2(nodes, s, nd) /\ Built(nd)

---------------------------------------------------------------------------
(* hidden_param assignment (BaseCallable.hidden_param setter) *)

\* isinstance(hidden, (bool, list))
ValidHiddenParam(v) == v.b \in {"True", "False", "list"}

set_hidden_param(n, v) ==
    /\ calls' = {}
    /\ UNCHANGED cursor
    /\ IF ValidHiddenParam(v)
       THEN /\ nodes' = [nodes EXCEPT ![n].hp = v]
            /\ assigned' = [assigned EXCEPT ![n] = v]
            /\ result' = [NoResult EXCEPT !.op = "hidden_param", !.target = n,
                                          !.arg = v,
                                          !.changed = (nodes[n].hp # v)]
       ELSE /\ UNCHANGED <<nodes, assigned>>
            /\ result' = [NoResult EXCEPT !.op = "hidden_param", !.target = n,
                                          !.arg = v,
                                          !.ok = FALSE, !.err = "ValueError"]

---------------------------------------------------------------------------
(* Reading a derived property: hidden, params, returns *)

read(n, prop) ==
    LET r == Read(nodes, n, prop)
    IN  /\ nodes' = r.T
        /\ result' = [NoResult EXCEPT !.op = prop, !.target = n,
                                      !.names = r.val,
                                      !.changed = (r.T # nodes)]
        /\ calls' = {}
        /\ UNCHANGED <<assigned, cursor>>

---------------------------------------------------------------------------
(* Evaluation entry point: analyze called on the root with keyword values *)

\* an evaluation that marks the root as evaluated by hiding it
analyze_marking(values) ==
    LET r == Analyze(nodes, Root, values)
    IN  /\ nodes' = [r.T EXCEPT ![Root].hp = HpTrue]
        /\ calls' = r.calls
        /\ result' = [NoResult EXCEPT !.op = "analyze", !.target = Root,
                                      !.values = values, !.ok = r.ok,
                                      !.err = r.err, !.out = r.out,
                                      !.changed = (r.T # nodes)]
        /\ UNCHANGED <<assigned, cursor>>

analyze(values) ==
    LET r == Analyze(nodes, Root, values)
    IN  /\ nodes' = r.T
        /\ calls' = r.calls
        /\ result' = [NoResult EXCEPT !.op = "analyze", !.target = Root,
                                      !.values = values, !.ok = r.ok,
                                      !.err = r.err, !.out = r.out,
                                      !.changed = (r.T # nodes)]
        /\ UNCHANGED <<assigned, cursor>>

---------------------------------------------------------------------------
(* Specification of assembly and evaluation *)

\* Model.__init__: the root is a Sequence
Init ==
    /\ nodes = <<ContainerNode("sequence", 1)>>
    /\ result = NoResult
    /\ calls = {}
    /\ assigned = <<HpFalse>>
    /\ cursor = NoCursor

AddLayer == \E s \in OpenContainers(nodes, Root) : add_layer(s)
AddSequence == \E l \in OpenContainers(nodes, Root) : add_sequence(l)
AddFunction ==
    \E l \in OpenContainers(nodes, Root), def \in FunctionDefs : add_function(l, def)
AddSchema ==
    \E l \in OpenContainers(nodes, Root), def \in SchemaDefs : add_schema(l, def)
\* the callables appended to a Sequence: p(x) and q(x, p)
AppendDefs == {def \in FunctionDefs : def.formals[1] = "x"}

AppendFunction ==
    \E s \in OpenContainers(nodes, Root), def \in AppendDefs :
        members_append(s, def)

HideProcessor ==
    \E n \in Processors(nodes) :
        /\ \A m \in DOMAIN nodes : nodes[m].hp = HpFalse
        /\ set_hidden_param(n, HpTrue)
\* a call after a call repeats it: any other call is explored from the state
\* before, which has the same tree unless the call changed it
AnalyzeRoot ==
    \E values \in InputSets :
        /\ result.op = "analyze" /\ ~result.changed => values = result.values
        /\ analyze(values)

Next ==
    \/ AddLayer
    \/ AddSequence
    \/ AddFunction
    \/ AddSchema
    \/ AppendFunction
    \/ HideProcessor
    \/ AnalyzeRoot

Spec == Init /\ [][Next]_vars

---------------------------------------------------------------------------
(* Specification of hidden_param assignment and the hidden property *)

MaxHiddenParams == 2

\* True, False, a list, and a value that is neither (None, a string, a tuple)
HpOther == [b |-> "other", l |-> {}]
HiddenInputs == {HpTrue, HpFalse, HpList({"q"}), HpOther}

HiddenFunctionDefs == {[label |-> "p", formals |-> <<"x">>, tags |-> {}]}

\* The container the cursor is in when it follows every container it adds
Newest(T) == CHOOSE c \in Containers(T) : \A d \in Containers(T) : d <= c

HAddLayer == add_layer(Newest(nodes))

HAddSequence == add_sequence(Newest(nodes))

HAddFunction == \E def \in HiddenFunctionDefs : add_function(Newest(nodes), def)

AssignHidden ==
    \E n \in DOMAIN nodes, v \in HiddenInputs :
        /\ Cardinality({m \in DOMAIN nodes :
               IF m = n THEN v \notin {HpFalse, HpOther}
               ELSE assigned[m] # HpFalse}) <= MaxHiddenParams
        /\ set_hidden_param(n, v)

ReadHidden == \E n \in Containers(nodes) : read(n, "hidden")

NextHidden ==
    \/ HAddLayer
    \/ HAddSequence
    \/ HAddFunction
    \/ AssignHidden
    \/ ReadHidden

SpecHidden == Init /\ [][NextHidden]_vars

---------------------------------------------------------------------------
(* SpecRepeat: a tree with hidden_param assignments is evaluated, again    *)
(* and again                                                               *)

\* hidden_param is assigned once to a component: True or a list
HideOnce ==
    \E n \in DOMAIN nodes, v \in {HpTrue, HpList({"q"})} :
        /\ assigned[n] = HpFalse
        /\ Cardinality({m \in DOMAIN nodes : assigned[m] # HpFalse})
               < MaxHiddenParams
        /\ set_hidden_param(n, v)

NextRepeat ==
    \/ HAddLayer
    \/ HAddSequence
    \/ HAddFunction
    \/ HideOnce
    \/ AnalyzeRoot

SpecRepeat == Init /\ [][NextRepeat]_vars

---------------------------------------------------------------------------
(* Specification of a processor evaluated on its own *)

ProcFunctionDefs ==
    {[label |-> l, formals |-> f, tags |-> {}] :
        l \in {"p", "q"},
        f \in {<<>>, <<"x">>, <<"p">>, <<"t">>, <<"x", "p">>, <<"p", "x">>}}

\* a two-level table of scalars: s(x, p), get get, {1: {1: 10, 2: 20}, 2: {1: 30}}
SchemaTwoLevels ==
    [label |-> "s", parameters |-> <<"x", "p">>, actions |-> <<"get", "get">>,
     data |-> Dict(<<Item(Num(1), Dict(<<Item(Num(1), Atom(10)),
                                         Item(Num(2), Atom(20))>>)),
                     Item(Num(2), Dict(<<Item(Num(1), Atom(30))>>))>>)]

\* thresholds stored out of order: s(x), lt, {3: 30, 2: 20}
SchemaLessThan ==
    [label |-> "s", parameters |-> <<"x">>, actions |-> <<"lt">>,
     data |-> Dict(<<Item(Num(3), Atom(30)), Item(Num(2), Atom(20))>>)]

\* thresholds over a table: s(x, p), gte get, {2: {1: 10}, 1: {1: 20, 2: 30}}
SchemaAtLeast ==
    [label |-> "s", parameters |-> <<"x", "p">>, actions |-> <<"gte", "get">>,
     data |-> Dict(<<Item(Num(2), Dict(<<Item(Num(1), Atom(10))>>)),
                     Item(Num(1), Dict(<<Item(Num(1), Atom(20)),
                                         Item(Num(2), Atom(30))>>))>>)]

\* a threshold that is no number: s(x), lte, {1: 10, "q": 20}
SchemaNamedThreshold ==
    [label |-> "s", parameters |-> <<"x">>, actions |-> <<"lte">>,
     data |-> Dict(<<Item(Num(1), Atom(10)), Item(Name("q"), Atom(20))>>)]

\* branches with leaves of different shapes: s(x), get, {1: {"q": 7}, 2: 10}
SchemaUnevenLeaves ==
    [label |-> "s", parameters |-> <<"x">>, actions |-> <<"get">>,
     data |-> Dict(<<Item(Num(1), Dict(<<Item(Name("q"), Atom(7))>>)),
                     Item(Num(2), Atom(10))>>)]

ProcSchemaDefs ==
    SchemaDefs \cup
    {[schema |-> sc, tags |-> {}] :
        sc \in {SchemaTwoLevels, SchemaLessThan, SchemaAtLeast,
                SchemaNamedThreshold, SchemaUnevenLeaves}}

\* the values a name is given when a processor is evaluated on its own
ProcValues(k) ==
    CASE k = "x" -> {Atom(1), Atom(2), Atom(3)}
      [] k = "p" -> {Atom(1), Atom(2)}
      [] OTHER -> {Atom(3)}

ProcInputSets ==
    UNION {[S -> UNION {ProcValues(k) : k \in S}] : S \in SUBSET InputNames}

InitProc ==
    /\ \/ \E def \in ProcFunctionDefs :
             nodes = <<FunctionNode(def.label, def.formals, def.tags)>>
       \/ \E def \in ProcSchemaDefs :
             nodes = <<SchemaNode(def.schema, def.tags)>>
    /\ result = NoResult
    /\ calls = {}
    /\ assigned = <<HpFalse>>
    /\ cursor = NoCursor

AnalyzeProcessor ==
    \E values \in ProcInputSets :
        /\ \A k \in DOMAIN values : values[k] \in ProcValues(k)
        /\ analyze(values)

NextProc == AnalyzeProcessor

SpecProc == InitProc /\ [][NextProc]_vars

---------------------------------------------------------------------------
(* What the call log says about one evaluation *)

Invoked(n) == \E e \in calls : e.node = n

Entry(n) == CHOOSE e \in calls : e.node = n

\* the values a component was evaluated with
Incoming(n) == IF n = Root THEN result.values ELSE Entry(n).handed

Position(c, m) ==
    CHOOSE i \in DOMAIN nodes[c].members : nodes[c].members[i] = m

RECURSIVE Accumulated(_, _)
\* the incoming values of c merged, in order, with what its first j members
\* returned
Accumulated(c, j) ==
    IF j = 0 THEN Incoming(c)
    ELSE Merge(Accumulated(c, j - 1), Entry(nodes[c].members[j]).out)

\* what the evaluation of a component came to
Outcome(n) ==
    IF n = Root THEN [ok |-> result.ok, out |-> result.out]
    ELSE [ok |-> Entry(n).ok, out |-> Entry(n).out]

Returned(n) == (n = Root \/ Invoked(n)) /\ Outcome(n).ok

\* a member of c returned the name k
Produced(c, k) ==
    \E i \in DOMAIN nodes[c].members :
        /\ Invoked(nodes[c].members[i])
        /\ k \in DOMAIN Entry(nodes[c].members[i]).out

RECURSIVE LastProduced(_, _, _)
\* the value of k returned by the last of the first j members that returned k
LastProduced(c, k, j) ==
    IF k \in DOMAIN Entry(nodes[c].members[j]).out
    THEN Entry(nodes[c].members[j]).out[k]
    ELSE LastProduced(c, k, j - 1)

---------------------------------------------------------------------------
(* Properties of evaluation *)

\* C1: in a Sequence, member i is invoked with the Sequence's incoming values
\* merged with the results of members 1..i-1, so that every name an earlier
\* member returned is handed to every later member.
C1_SequenceThreadsForward ==
    result.op = "analyze" =>
        \A e \in calls :
            nodes[e.by].kind = "sequence" =>
                e.handed = Accumulated(e.by, Position(e.by, e.node) - 1)

\* a later member of a Sequence was handed a name that only an earlier
\* member returned
C1_Witness ==
    /\ result.op = "analyze"
    /\ \E e \in calls :
          /\ nodes[e.by].kind = "sequence"
          /\ Position(e.by, e.node) > 1
          /\ \E k \in DOMAIN e.handed :
                /\ k \notin DOMAIN Incoming(e.by)
                /\ k \in DOMAIN Entry(nodes[e.by].members[1]).out

\* C2: every member of a Layer is handed exactly the Layer's incoming values
\* restricted to the names the member declares as params; it never receives
\* a value a sibling of the same Layer produced.
C2_LayerSnapshotIsolation ==
    result.op = "analyze" =>
        \A e \in calls :
            nodes[e.by].kind = "layer" =>
                e.handed = Restrict(Incoming(e.by), Params(nodes, e.node))

\* a member of a Layer declares a name an earlier sibling returned, and was
\* handed the incoming value of that name, not the sibling's
C2_Witness ==
    /\ result.op = "analyze"
    /\ \E e, f \in calls :
          /\ e.by = f.by
          /\ nodes[e.by].kind = "layer"
          /\ Position(f.by, f.node) < Position(e.by, e.node)
          /\ \E k \in DOMAIN f.out \cap Params(nodes, e.node) :
                /\ k \in DOMAIN e.handed
                /\ e.handed[k] # f.out[k]
                /\ e.handed[k] = Incoming(e.by)[k]

C4_HiddenSuppressedAtBoundary ==
    result.op = "analyze" =>
        \A c \in Containers(nodes) :
            Returned(c) =>
                \A k \in Hidden(nodes, c) :
                    Produced(c, k) /\ k \notin DOMAIN Incoming(c) =>
                        k \notin DOMAIN Outcome(c).out

\* C5: a value a member of a Sequence returns and declares hidden is handed
\* to every later member of that Sequence, and its name is no key of what
\* the Sequence returns to the container around it.
C5_HiddenUsableUntilBoundary ==
    result.op = "analyze" =>
        \A c \in Containers(nodes) :
            nodes[c].kind = "sequence" /\ Returned(c) =>
                \A i \in DOMAIN nodes[c].members :
                    LET m == nodes[c].members[i]
                    IN  \A k \in Hidden(nodes, m) \cap DOMAIN Entry(m).out :
                            /\ \A j \in DOMAIN nodes[c].members :
                                  j > i =>
                                      k \in DOMAIN Entry(nodes[c].members[j]).handed
                            /\ k \notin DOMAIN Incoming(c) =>
                                  k \notin DOMAIN Outcome(c).out

\* C8: after an evaluation the result holds, under every tag t, the mapping
\* from the label of each processor tagged t whose result is present to
\* that result; a tagged processor whose result is absent is left out and
\* does not make the evaluation fail.
C8_TagGrouping ==
    result.op = "analyze" =>
        /\ result.err # "KeyError(label)"
        /\ result.ok =>
              \A t \in AllTags(nodes, Root) :
                  LET ps == Tagged(nodes, Root, t)
                      present == {nodes[ps[i]].label : i \in DOMAIN ps}
                                     \cap DOMAIN result.out
                  IN  /\ t \in DOMAIN result.out
                      /\ result.out[t] = Group([l \in present |-> result.out[l]])

\* C10: a function processor evaluated with its declared params and more
\* returns, the callable bound to the declared params alone.
C10_ExtraKeysIgnored ==
    result.op = "analyze" =>
        \A e \in calls :
            LET nd == nodes[e.node]
            IN  nd.kind = "function" /\ Range(nd.formals) \subseteq DOMAIN e.handed =>
                    /\ e.ok
                    /\ e.out = (nd.label :>
                          CallValue(nd.label, Restrict(e.handed, Range(nd.formals))))

---------------------------------------------------------------------------
(* Properties of a processor evaluated on its own *)

\* C9: a function processor returns the one name that is its label, and its
\* analyze returns exactly the one-entry mapping from the label to the
\* callable applied to the declared params bound by name.
C9_FunctionProcessorContract ==
    LET nd == nodes[Root]
    IN  nd.kind = "function" =>
            /\ FunctionReturns(nd.label) = <<nd.label>>
            /\ Returns(nodes, Root) = {nd.label}
            /\ result.op = "analyze" /\ result.ok =>
                  result.out = (nd.label :> CallValue(nd.label,
                                   [k \in Range(nd.formals) |-> result.values[k]]))

\* a function processor of two params returned
C9_Witness ==
    /\ nodes[Root].kind = "function"
    /\ Len(nodes[Root].formals) = 2
    /\ result.op = "analyze"
    /\ result.ok
    /\ DOMAIN result.out = {nodes[Root].label}
    /\ DOMAIN result.out[nodes[Root].label].args = {"x", "p"}

---------------------------------------------------------------------------
(* Properties of hidden_param and hidden *)

\* the names the members of c have in their hidden
MembersHidden(c) ==
    UNION {Hidden(nodes, nodes[c].members[i]) : i \in DOMAIN nodes[c].members}

\* C6: whatever its hidden_param, the hidden of a container contains every
\* name a member beneath it has in its hidden.
C6_HidingMonotonicUpward ==
    \A c \in Containers(nodes) : MembersHidden(c) \subseteq Hidden(nodes, c)

\* C7: hidden_param takes True, False or a list and nothing else; with True
\* a component's own contribution to hidden is every value it directly
\* returns, with False nothing, with a list exactly the names listed.
C7_HiddenParamResolution ==
    /\ \A n \in DOMAIN nodes : ValidHiddenParam(nodes[n].hp)
    /\ result.op = "hidden_param" => (result.ok <=> ValidHiddenParam(result.arg))
    /\ \A n \in Processors(nodes) :
          Hidden(nodes, n) =
              CASE assigned[n].b = "True" -> Returns(nodes, n)
                [] assigned[n].b = "False" -> {}
                [] OTHER -> assigned[n].l
    /\ \A c \in Containers(nodes) :
          CASE assigned[c].b = "True" -> AllReturns(nodes, c) \subseteq Hidden(nodes, c)
            [] assigned[c].b = "False" -> Hidden(nodes, c) \subseteq MembersHidden(c)
            [] OTHER ->
                 /\ assigned[c].l \subseteq Hidden(nodes, c)
                 /\ Hidden(nodes, c) \subseteq assigned[c].l \cup MembersHidden(c)

---------------------------------------------------------------------------
(* Construction of single components: schema validation, labels, tags and  *)
(* member lists (base.py, processors.py).  Under SpecBuild `nodes` is the   *)
(* list of the components constructed so far and `result` the outcome of    *)
(* the last operation.                                                      *)

MaxComponents == 2

\* str.isidentifier() over the strings used as labels and tags
Identifiers == {"a", "p", "s", "t", "for"}

\* keyword.iskeyword()
Keywords == {"for"}

\* BaseTaggable._validate_tag, and the checks of BaseLabeled._validate_label
\* on a label that is given: the error raised, "" when there is none
ValidateToken(token) ==
    IF token \notin Identifiers THEN "ValueError"
    ELSE IF token \in Keywords THEN "ValueError"
    ELSE ""

\* a tag list as the number of times each tag is held
TagCount(tags, t) == Cardinality({i \in DOMAIN tags : tags[i] = t})

RECURSIVE Held(_)
\* the length of a tag list
Held(held) ==
    IF DOMAIN held = {} THEN 0
    ELSE LET t == CHOOSE t \in DOMAIN held : TRUE
         IN  held[t] + Held([u \in DOMAIN held \ {t} |-> held[u]])

\* BaseTaggable._validate_tags: [validate(tag) for tag in set(tags)]
ValidateTags(tags) ==
    IF \E t \in Range(tags) : ValidateToken(t) # ""
    THEN [err |-> "ValueError", tags |-> EmptyMap]
    ELSE [err |-> "", tags |-> [t \in Range(tags) |-> 1]]

\* _VALID_SCHEMA_ACTIONS
ValidSchemaActions == {"get", "lt", "gt", "lte", "gte"}

\* SchemaProcessor._validate_schema: the error raised, "" when there is none
ValidateSchema(schema) ==
    IF "params" \notin DOMAIN schema THEN "KeyError"
    ELSE IF "actions" \notin DOMAIN schema THEN "KeyError"
    ELSE IF Len(schema.actions) # Len(schema.params) THEN "ValueError"
    ELSE IF \E i \in DOMAIN schema.actions :
               schema.actions[i] \notin ValidSchemaActions THEN "ValueError"
    ELSE IF "data" \notin DOMAIN schema THEN "KeyError"
    ELSE IF "label" \notin DOMAIN schema THEN "KeyError"
    ELSE ""

\* SchemaProcessor.params
SchemaProcessorParams(nd) == nd.schema.params

\* a constructed component; labelled is FALSE while no label was ever set
Component(kind, labelled, label, tags, schema) ==
    [kind |-> kind, labelled |-> labelled, label |-> label, tags |-> tags,
     members |-> <<>>, schema |-> schema]

\* the outcome of an operation and the components it leaves
Operation(op, target, arg, err, T) ==
    /\ nodes' = T
    /\ result' = [NoResult EXCEPT !.op = op, !.target = target, !.arg = arg,
                                  !.ok = (err = ""), !.err = err,
                                  !.changed = (T # nodes)]
    /\ UNCHANGED <<calls, assigned, cursor>>

\* SchemaProcessor.__init__: the schema is validated, the label is the one
\* given or the schema's and is kept as it is, the tags are validated
new_schema(schema, given, label, tags) ==
    LET arg == [schema |-> schema, given |-> given, label |-> label, tags |-> tags]
        vt == ValidateTags(tags)
        err == IF ValidateSchema(schema) # "" THEN ValidateSchema(schema) ELSE vt.err
    IN  Operation("SchemaProcessor", Len(nodes) + 1, arg, err,
            IF err # "" THEN nodes
            ELSE Append(nodes, Component("schema", TRUE,
                     IF given THEN label ELSE schema.label, vt.tags, schema)))

\* FunctionProcessor.__init__: the label is the one given or the callable's
\* name and is kept as it is, the tags are validated
new_function(name, given, label, tags) ==
    LET arg == [name |-> name, given |-> given, label |-> label, tags |-> tags]
        vt == ValidateTags(tags)
    IN  Operation("FunctionProcessor", Len(nodes) + 1, arg, vt.err,
            IF vt.err # "" THEN nodes
            ELSE Append(nodes, Component("function", TRUE,
                     IF given THEN label ELSE name, vt.tags, NoSchema)))

\* Layer._valid_member_types, Sequence._valid_member_types
ValidMemberTypes(kind) ==
    IF kind = "layer" THEN {"sequence", "function", "schema"}
    ELSE {"layer", "function", "schema"}

\* BaseContainer._validate_member: isinstance(member, self._valid_member_types)
\* is given a list where a type or a tuple of types is required and raises
\* TypeError for every member
ValidateMember(kind, member) == "TypeError"

\* BaseContainer._validate_members
ValidateMembers(kind, members) ==
    IF \E i \in DOMAIN members : ValidateMember(kind, members[i]) # ""
    THEN "TypeError" ELSE ""

\* Layer(members), Sequence(members): BaseCallable.__init__ ends the chain
\* of initialisers, so neither a label nor tags are set
new_container(kind, members) ==
    LET err == ValidateMembers(kind, members)
    IN  Operation(kind, Len(nodes) + 1, [members |-> members], err,
            IF err # "" THEN nodes
            ELSE Append(nodes, [Component(kind, FALSE, "", EmptyMap, NoSchema)
                                   EXCEPT !.members = members]))

\* BaseContainer.members setter
set_members(c, members) ==
    LET err == ValidateMembers(nodes[c].kind, members)
    IN  Operation("members", c, [members |-> members], err,
            IF err # "" THEN nodes ELSE [nodes EXCEPT ![c].members = members])

\* BaseContainer.add_member
add_member(c, m) ==
    LET err == ValidateMember(nodes[c].kind, m)
    IN  Operation("add_member", c, [member |-> m, kind |-> nodes[m].kind], err,
            IF err # "" THEN nodes
            ELSE [nodes EXCEPT ![c].members = Append(@, m)])

\* ContainerAdder.add_layer, add_sequence, add_function, add_schema: the
\* new component is handed to add_member
adder_add(c, kind) ==
    LET err == ValidateMember(nodes[c].kind, Len(nodes) + 1)
        nd == IF kind = "function" THEN Component(kind, TRUE, "p", EmptyMap, NoSchema)
              ELSE Component(kind, FALSE, "", EmptyMap, NoSchema)
    IN  Operation("add_" \o kind, c, [member |-> 0, kind |-> kind], err,
            IF err # "" THEN nodes
            ELSE [Append(nodes, nd) EXCEPT ![c].members = Append(@, Len(nodes) + 1)])

\* BaseLabeled.set_label: a container validates the label, a processor
\* overrides _validate_label and keeps the label as it is
set_label(n, label) ==
    LET err == IF IsProcessor(nodes[n]) THEN "" ELSE ValidateToken(label)
    IN  Operation("set_label", n, [label |-> label], err,
            IF err # "" THEN nodes
            ELSE [nodes EXCEPT ![n].labelled = TRUE, ![n].label = label])

\* BaseTaggable.set_tags
set_tags(n, tags) ==
    LET vt == ValidateTags(tags)
    IN  Operation("set_tags", n, [tags |-> tags], vt.err,
            IF vt.err # "" THEN nodes ELSE [nodes EXCEPT ![n].tags = vt.tags])

\* BaseTaggable.add_tags: self.tags.extend(tags)
add_tags(n, tags) ==
    LET held == nodes[n].tags
        count(t) == (IF t \in DOMAIN held THEN held[t] ELSE 0) + TagCount(tags, t)
    IN  Operation("add_tags", n, [tags |-> tags], "",
            [nodes EXCEPT ![n].tags =
                [t \in DOMAIN held \cup Range(tags) |-> count(t)]])

RECURSIVE RemoveLoop(_, _)
\* for tag in tags: self.tags.remove(tag); list.remove raises ValueError
\* for a tag that is not held, after the earlier ones were removed
RemoveLoop(held, tags) ==
    IF tags = <<>> THEN [err |-> "", tags |-> held]
    ELSE IF Head(tags) \notin DOMAIN held THEN [err |-> "ValueError", tags |-> held]
    ELSE LET left == IF held[Head(tags)] = 1
                     THEN [t \in DOMAIN held \ {Head(tags)} |-> held[t]]
                     ELSE [held EXCEPT ![Head(tags)] = @ - 1]
         IN  RemoveLoop(left, Tail(tags))

\* BaseTaggable.remove_tags
remove_tags(n, tags) ==
    LET r == RemoveLoop(nodes[n].tags, tags)
    IN  Operation("remove_tags", n, [tags |-> tags], r.err,
            [nodes EXCEPT ![n].tags = r.tags])

---------------------------------------------------------------------------
(* SpecBuild: single components are constructed, relabelled, retagged and  *)
(* offered to containers as members.                                        *)

MaxTags == 2

\* schema mappings with every field, before fields are left out
FullSchemas ==
    LET table == Dict(<<Item(Num(1), Atom(10))>>)
        full(params, parameters, actions) ==
            [label |-> "s", params |-> params, parameters |-> parameters,
             actions |-> actions, data |-> table]
    IN  { full(<<"x">>, <<"x">>, <<"get">>),
          full(<<"x">>, <<"x", "p">>, <<"get">>),
          full(<<"x", "p">>, <<"x", "p">>, <<"get">>),
          full(<<"x">>, <<"x">>, <<"up">>),
          full(<<"p">>, <<"x">>, <<"get">>),
          full(<<"x", "p">>, <<"x", "p">>, <<"gte", "get">>) }

\* the schema mappings handed to SchemaProcessor
RawSchemas ==
    {[k \in S |-> full[k]] :
        S \in SUBSET {"label", "params", "parameters", "actions", "data"},
        full \in FullSchemas}

LabelInputs == {"a", "for", "a b"}

TagLists == {<<>>, <<"t">>, <<"t", "t">>, <<"for">>, <<"t", "a b">>}

MemberLists == {<<>>} \cup {<<m>> : m \in DOMAIN nodes}

InitBuild ==
    /\ nodes = <<>>
    /\ result = NoResult
    /\ calls = {}
    /\ assigned = <<>>
    /\ cursor = NoCursor

NewSchema ==
    /\ Len(nodes) < MaxComponents
    /\ \E schema \in RawSchemas : new_schema(schema, FALSE, "", <<>>)

NewFunction ==
    /\ Len(nodes) < MaxComponents
    /\ \E given \in BOOLEAN, label \in LabelInputs \cup {""}, tags \in TagLists :
          /\ given <=> label # ""
          /\ new_function("p", given, label, tags)

NewContainer ==
    /\ Len(nodes) < MaxComponents
    /\ \E kind \in {"layer", "sequence"}, members \in MemberLists :
          new_container(kind, members)

SetMembers ==
    \E c \in DOMAIN nodes, members \in MemberLists :
        IsContainer(nodes[c]) /\ set_members(c, members)

AddMember ==
    \E c, m \in DOMAIN nodes :
        IsContainer(nodes[c]) /\ c # m /\ add_member(c, m)

AdderAdd ==
    \E c \in DOMAIN nodes, kind \in {"layer", "sequence", "function", "schema"} :
        IsContainer(nodes[c]) /\ Len(nodes) < MaxComponents /\ adder_add(c, kind)

SetLabel ==
    \E n \in DOMAIN nodes, label \in LabelInputs : set_label(n, label)

SetTags ==
    \E n \in DOMAIN nodes, tags \in TagLists :
        IsProcessor(nodes[n]) /\ set_tags(n, tags)

AddTags ==
    \E n \in DOMAIN nodes, tags \in TagLists :
        /\ IsProcessor(nodes[n])
        /\ Held(nodes[n].tags) + Len(tags) <= MaxTags
        /\ add_tags(n, tags)

RemoveTags ==
    \E n \in DOMAIN nodes, tags \in TagLists :
        IsProcessor(nodes[n]) /\ remove_tags(n, tags)

NextBuild ==
    \/ NewFunction
    \/ NewContainer
    \/ SetMembers
    \/ AddMember
    \/ AdderAdd
    \/ SetLabel
    \/ SetTags
    \/ AddTags
    \/ RemoveTags

SpecBuild == InitBuild /\ [][NextBuild]_vars

\* SpecSchema: schema processors are constructed from schema mappings
NextSchema == NewSchema

SpecSchema == InitBuild /\ [][NextSchema]_vars

---------------------------------------------------------------------------
(* Properties of a processor's failures *)

\* the parameters a processor declares, in order
Declared(nd) ==
    IF nd.kind = "function" THEN nd.formals ELSE SchemaParameters(nd.schema)

\* the error a processor raises for a parameter it was not handed: Python's
\* TypeError for the call of the wrapped callable, the KeyError of
\* SchemaProcessor.analyze
MissingParameterError(nd) ==
    IF nd.kind = "function" THEN "TypeError" ELSE "KeyError(parameter)"

\* the position of the first declared parameter that values lacks
FirstMissing(nd, values) ==
    CHOOSE i \in DOMAIN Declared(nd) :
        /\ Declared(nd)[i] \notin DOMAIN values
        /\ \A j \in 1..(i - 1) : Declared(nd)[j] \in DOMAIN values

\* a lookup of a parameter declared before the first missing one fails
EarlierLookupFails(nd, values) ==
    /\ nd.kind = "schema"
    /\ LET i == FirstMissing(nd, values)
           prefix == [nd.schema EXCEPT !.parameters = SubSeq(@, 1, i - 1),
                                       !.actions = SubSeq(@, 1, i - 1)]
       IN  ~SchemaWalk(prefix, values, 1, nd.schema.data).ok

\* the processor n was evaluated with a value set that lacks one of its
\* declared parameters
EvaluatedLacking(n) ==
    /\ result.op = "analyze"
    /\ n = Root \/ Invoked(n)
    /\ ~(Range(Declared(nodes[n])) \subseteq DOMAIN Incoming(n))

\* C11 as stated: a processor evaluated with a value set that lacks one of
\* its declared parameters fails, and the evaluation with it, with the
\* missing-parameter error.
C11_MissingParameterFails ==
    \A n \in Processors(nodes) :
        EvaluatedLacking(n) =>
            /\ ~Outcome(n).ok
            /\ ~result.ok
            /\ result.err = MissingParameterError(nodes[n])

\* C11, amended: it fails and returns nothing; the error is the
\* missing-parameter error unless, in a schema processor, the lookup of a
\* parameter declared earlier fails first, and then it is the lookup error.
C11_MissingParameterOrEarlierLookup ==
    \A n \in Processors(nodes) :
        EvaluatedLacking(n) =>
            /\ ~Outcome(n).ok
            /\ Outcome(n).out = EmptyMap
            /\ ~result.ok
            /\ result.err = IF EarlierLookupFails(nodes[n], Incoming(n))
                            THEN "ValueError"
                            ELSE MissingParameterError(nodes[n])

\* a schema processor resolved its first parameter and raised for the
\* second, which it was not handed
C11_Witness ==
    LET nd == nodes[Root]
    IN  /\ result.op = "analyze"
        /\ nd.kind = "schema"
        /\ Len(Declared(nd)) = 2
        /\ Declared(nd)[1] \in DOMAIN result.values
        /\ Declared(nd)[2] \notin DOMAIN result.values
        /\ ~result.ok
        /\ result.err = "KeyError(parameter)"

---------------------------------------------------------------------------
(* Properties of schema evaluation *)

\* the values of the declared parameters, in declared order
KeyPath(nd, values) ==
    [i \in DOMAIN Declared(nd) |-> values[Declared(nd)[i]]]

RECURSIVE HasPath(_, _)
\* the keys of path are, level after level, keys of data
HasPath(data, path) ==
    \/ path = <<>>
    \/ /\ IsDict(data)
       /\ IsAtom(Head(path))
       /\ \E j \in DOMAIN data.dict :
             /\ data.dict[j].k = Num(Head(path).atom)
             /\ HasPath(data.dict[j].v, Tail(path))

RECURSIVE AtPath(_, _)
\* what data stores at a path it has
AtPath(data, path) ==
    IF path = <<>> THEN data
    ELSE LET j == CHOOSE i \in DOMAIN data.dict :
                      data.dict[i].k = Num(Head(path).atom)
         IN  AtPath(data.dict[j].v, Tail(path))

AllGet(nd) == \A i \in DOMAIN nd.schema.actions : nd.schema.actions[i] = "get"

\* the root is a schema processor that was evaluated with all its parameters
SchemaEvaluated ==
    /\ result.op = "analyze"
    /\ nodes[Root].kind = "schema"
    /\ Range(Declared(nodes[Root])) \subseteq DOMAIN result.values

\* C12: a schema processor whose actions are all get, evaluated with values
\* that are a key path of its data, returns exactly the mapping stored at
\* that path, or the one-entry mapping from its label to the scalar stored
\* there.
C12_GetRoundTrip ==
    LET nd == nodes[Root]
    IN  SchemaEvaluated /\ AllGet(nd)
        /\ HasPath(nd.schema.data, KeyPath(nd, result.values)) =>
            LET leaf == AtPath(nd.schema.data, KeyPath(nd, result.values))
            IN  /\ result.ok
                /\ result.out = IF IsDict(leaf) THEN LeafMap(leaf)
                                ELSE (nd.label :> leaf)

\* a two-level table was evaluated at a path that is not its first
C12_Witness ==
    LET nd == nodes[Root]
    IN  /\ SchemaEvaluated /\ AllGet(nd)
        /\ HasPath(nd.schema.data, KeyPath(nd, result.values))
        /\ result.ok
        /\ Len(Declared(nd)) = 2
        /\ result.values["x"] = Atom(2)
        /\ result.out = (nd.label :> Atom(30))

\* the comparison of the value with the stored key holds
Satisfies(action, v, k) == IsNum(k) /\ Tester(action, v.atom, k.num)

\* the positions of the stored keys that satisfy the comparison and have no
\* satisfying key stored before them
FirstSatisfying(items, action, v) ==
    {j \in DOMAIN items :
        /\ Satisfies(action, v, items[j].k)
        /\ \A i \in 1..(j - 1) : ~Satisfies(action, v, items[i].k)}

\* the root is a schema processor evaluated with all its parameters whose
\* first action is a comparison and whose other actions are get
ComparisonEvaluated ==
    /\ SchemaEvaluated
    /\ nodes[Root].schema.actions[1] \in {"lt", "gt", "lte", "gte"}
    /\ \A i \in DOMAIN nodes[Root].schema.actions :
          i > 1 => nodes[Root].schema.actions[i] = "get"

\* C13: at a comparison level a schema processor that returns has descended
\* into the value of the first key, in stored order, that satisfies the
\* comparison with the value; the stored keys stay in their order.
C13_FirstStoredKey ==
    LET nd == nodes[Root]
        items == nd.schema.data.dict
        v == result.values[Declared(nd)[1]]
        rest == Tail(KeyPath(nd, result.values))
    IN  ComparisonEvaluated /\ result.ok =>
            /\ \E def \in ProcSchemaDefs : nd.schema = def.schema
            /\ FirstSatisfying(items, nd.schema.actions[1], v) # {}
            /\ LET j == CHOOSE i \in FirstSatisfying(items, nd.schema.actions[1], v) : TRUE
               IN  /\ HasPath(items[j].v, rest)
                   /\ result.out = (nd.label :> AtPath(items[j].v, rest))

\* two stored keys satisfy the comparison, the one stored first is not the
\* one of least magnitude, and the value stored under it is returned
C13_Witness ==
    LET nd == nodes[Root]
        items == nd.schema.data.dict
        v == result.values[Declared(nd)[1]]
    IN  /\ ComparisonEvaluated /\ result.ok
        /\ Len(Declared(nd)) = 1
        /\ \E i, j \in DOMAIN items :
              /\ i < j
              /\ Satisfies(nd.schema.actions[1], v, items[i].k)
              /\ Satisfies(nd.schema.actions[1], v, items[j].k)
              /\ items[j].k.num < items[i].k.num
              /\ \A h \in 1..(i - 1) : ~Satisfies(nd.schema.actions[1], v, items[h].k)
              /\ result.out = (nd.label :> items[i].v)

\* data has no key for the value under the action: no key equal to it under
\* get, no key satisfying the comparison otherwise
KeyAbsent(data, action, v) ==
    \/ ~IsDict(data)
    \/ IF action = "get" THEN ~HasPath(data, <<v>>)
       ELSE FirstSatisfying(data.dict, action, v) = {}

RECURSIVE LookupFails(_, _, _)
\* at some level of the descent along path, the data reached has no key
LookupFails(data, path, actions) ==
    /\ path # <<>>
    /\ \/ KeyAbsent(data, Head(actions), Head(path))
       \/ LET child == IF Head(actions) = "get" THEN AtPath(data, <<Head(path)>>)
                       ELSE data.dict[CHOOSE j \in FirstSatisfying(
                                data.dict, Head(actions), Head(path)) : TRUE].v
          IN  LookupFails(child, Tail(path), Tail(actions))

\* C14: a schema processor evaluated with values for which a get key is
\* absent, or no stored key satisfies a comparison, fails with the lookup
\* error and returns no result.
C14_LookupFailureRaises ==
    LET nd == nodes[Root]
    IN  /\ SchemaEvaluated
        /\ LookupFails(nd.schema.data, KeyPath(nd, result.values),
                       nd.schema.actions)
        => /\ ~result.ok
           /\ result.err = "ValueError"
           /\ result.out = EmptyMap

\* a table was evaluated with a first key it has and a second key it lacks
C14_Witness ==
    LET nd == nodes[Root]
        path == KeyPath(nd, result.values)
    IN  /\ SchemaEvaluated
        /\ Len(path) = 2
        /\ ~KeyAbsent(nd.schema.data, nd.schema.actions[1], path[1])
        /\ LookupFails(nd.schema.data, path, nd.schema.actions)
        /\ result.err = "ValueError"

---------------------------------------------------------------------------
(* Properties of schema construction (SpecSchema) *)

RequiredFields == {"label", "parameters", "actions", "data"}

\* the mapping has a list of parameters and a list of actions of one length,
\* and every action is a recognized verb
ListsAgree(schema) ==
    /\ Len(schema.parameters) = Len(schema.actions)
    /\ \A i \in DOMAIN schema.actions :
          schema.actions[i] \in {"get", "lt", "gt", "lte", "gte"}

\* C15: the construction of a schema processor is rejected, and no processor
\* is created, whenever the mapping lacks one of label, parameters, actions
\* and data, or parameters and actions differ in length, or an action is
\* none of get, lt, gt, lte, gte.
C15_DefectiveSchemaRejected ==
    result.op = "SchemaProcessor" =>
        LET schema == result.arg.schema
        IN  (~(RequiredFields \subseteq DOMAIN schema) \/ ~ListsAgree(schema))
                => ~result.ok /\ result.target \notin DOMAIN nodes

\* C16: every schema mapping that has label, parameters, actions and data,
\* with as many actions as parameters and only recognized verbs, is accepted,
\* and the processor declares the parameters of the mapping in their order.
C16_WellFormedSchemaAccepted ==
    result.op = "SchemaProcessor" =>
        LET schema == result.arg.schema
        IN  RequiredFields \subseteq DOMAIN schema /\ ListsAgree(schema) =>
                /\ result.ok
                /\ nodes[result.target].kind = "schema"
                /\ SchemaProcessorParams(nodes[result.target]) = schema.parameters

---------------------------------------------------------------------------
(* Properties of component construction (SpecBuild) *)

\* the last operation offered one component to a container as a member
MemberOffered ==
    result.op \in {"add_member", "add_layer", "add_sequence",
                   "add_function", "add_schema"}

\* C17: after any construction operations the members of a Layer are
\* Sequences and processors and the members of a Sequence are Layers and
\* processors; adding a component of another type raises an error and
\* leaves the member list as it was, adding one of these types succeeds.
C17_FlavorAlternation ==
    /\ \A c \in DOMAIN nodes : \A i \in DOMAIN nodes[c].members :
          nodes[nodes[c].members[i]].kind \in ValidMemberTypes(nodes[c].kind)
    /\ MemberOffered =>
          LET c == result.target
              ms == nodes[c].members
          IN  IF result.arg.kind \in ValidMemberTypes(nodes[c].kind)
              THEN /\ result.ok
                   /\ ms # <<>>
                   /\ nodes[ms[Len(ms)]].kind = result.arg.kind
              ELSE ~result.ok /\ ~result.changed

\* an identifier-like token that is no reserved word
ValidToken(token) == token \in Identifiers \ Keywords

\* C18: every constructed processor and container has a label, given or
\* derived, that is identifier-like, has no whitespace and is no reserved
\* word; an operation that gives an invalid label is rejected.
C18_LabelValidity ==
    /\ \A n \in DOMAIN nodes :
          nodes[n].labelled /\ ValidToken(nodes[n].label)
    /\ result.op \in {"FunctionProcessor", "set_label"} =>
          LET given == result.op = "set_label" \/ result.arg.given
          IN  given /\ ~ValidToken(result.arg.label)
                  => ~result.ok /\ ~result.changed

\* C19: after any tag operations every tag a component holds is an
\* identifier-like token that is no reserved word and is held once; an
\* operation that gives an invalid token is rejected and adds nothing.
C19_TagValidity ==
    /\ \A n \in DOMAIN nodes : \A t \in DOMAIN nodes[n].tags :
          ValidToken(t) /\ nodes[n].tags[t] = 1
    /\ result.op \in {"FunctionProcessor", "set_tags", "add_tags"} =>
          ((\E t \in Range(result.arg.tags) : ~ValidToken(t))
              => ~result.ok /\ ~result.changed)

---------------------------------------------------------------------------
(* Properties of repeated evaluation (SpecRepeat) *)

\* what the tree shows of component n: its place in the structure, its
\* label, tags and schema
Shown(T, n) == [T[n] EXCEPT !.hp = HpFalse]

\* the step leaves the structure, the schema data and every container's
\* params and returns as they were
TreeKept ==
    /\ DOMAIN nodes' = DOMAIN nodes
    /\ \A n \in DOMAIN nodes : Shown(nodes', n) = Shown(nodes, n)
    /\ \A c \in Containers(nodes) :
          /\ Params(nodes', c) = Params(nodes, c)
          /\ Returns(nodes', c) = Returns(nodes, c)

---------------------------------------------------------------------------
(* Properties of merging and of failure (Spec) *)

\* members i < j of c both returned, and both returned the name k
Collide(c, i, j, k) ==
    LET a == nodes[c].members[i]
        b == nodes[c].members[j]
    IN  /\ i < j
        /\ Invoked(a) /\ Entry(a).ok /\ k \in DOMAIN Entry(a).out
        /\ Invoked(b) /\ Entry(b).ok /\ k \in DOMAIN Entry(b).out

AllReturned(c) ==
    \A i \in DOMAIN nodes[c].members :
        Invoked(nodes[c].members[i]) /\ Entry(nodes[c].members[i]).ok

\* C21: when two members of a container both return the same name, the
\* merge raises nothing: the evaluation goes on to the next member, and
\* once every member has returned the container fails only in the tag
\* grouping of a Layer; the result of a container that returns holds for
\* that name the value of the member declared last among those returning it.
C21_LastWriteWins ==
    result.op = "analyze" =>
        \A c \in Containers(nodes) : \A i, j \in DOMAIN nodes[c].members :
            \A k \in {"x", "p", "q", "s", "t"} :
                Collide(c, i, j, k) =>
                    /\ j < Len(nodes[c].members) => Invoked(nodes[c].members[j + 1])
                    /\ AllReturned(c) =>
                          IF Returned(c)
                          THEN \/ nodes[c].kind = "layer" /\ k \in AllTags(nodes, c)
                               \/ Outcome(c).out[k] =
                                      LastProduced(c, k, Len(nodes[c].members))
                          ELSE /\ nodes[c].kind = "layer"
                               /\ result.err \in {"KeyError(label)", "AttributeError"}

\* two processors of one Layer returned different values for one name and
\* the Layer returned the value of the second
C21_Witness ==
    /\ result.op = "analyze"
    /\ \E c \in Containers(nodes) : \E i, j \in DOMAIN nodes[c].members :
          \E k \in {"q"} :
              /\ Collide(c, i, j, k)
              /\ IsProcessor(nodes[nodes[c].members[i]])
              /\ IsProcessor(nodes[nodes[c].members[j]])
              /\ Returned(c)
              /\ Entry(nodes[c].members[i]).out[k] # Entry(nodes[c].members[j]).out[k]
              /\ Outcome(c).out[k] = Entry(nodes[c].members[j]).out[k]

\* a processor was invoked and failed
Failed(e) == e \in calls /\ IsProcessor(nodes[e.node]) /\ ~e.ok

\* C22: when a processor fails during analyze, every enclosing container
\* fails with the processor's error, no member declared after the failing
\* one in an enclosing container is invoked, and the caller is returned no
\* result mapping.
C22_ErrorsAbort ==
    result.op = "analyze" =>
        /\ \A e \in calls :
              ~e.ok =>
                  /\ ~Outcome(e.by).ok
                  /\ Outcome(e.by).out = EmptyMap
                  /\ e.out = EmptyMap
                  /\ \A i \in DOMAIN nodes[e.by].members :
                        i > Position(e.by, e.node)
                            => ~Invoked(nodes[e.by].members[i])
        /\ \A e \in calls :
              Failed(e) =>
                  /\ ~result.ok
                  /\ result.out = EmptyMap
                  /\ result.err = Analyze(nodes, e.node, e.handed).err

\* a processor failed in a container below the root, after a sibling had
\* returned, and a member of the root was left uninvoked
C22_Witness ==
    /\ result.op = "analyze"
    /\ \E e, f \in calls :
          /\ Failed(e)
          /\ e.by # Root
          /\ f.by = e.by /\ f.ok
          /\ \E i \in DOMAIN nodes[Root].members :
                ~Invoked(nodes[Root].members[i])

---------------------------------------------------------------------------
(* Properties of the derived name lists *)

\* the names the members of c consume, and the names they produce
Consumed(c) ==
    UNION {Params(nodes, nodes[c].members[i]) : i \in DOMAIN nodes[c].members}

ProducedBy(c) ==
    UNION {Returns(nodes, nodes[c].members[i]) : i \in DOMAIN nodes[c].members}

\* C23: the params of every container are the names its members consume
\* minus the names its members produce.
C23_ParamsConsumedMinusProduced ==
    \A c \in Containers(nodes) :
        Params(nodes, c) = Consumed(c) \ ProducedBy(c)

\* C24: the returns of every container are the names its members produce
\* minus the container's hidden names, so no hidden name is among them.
C24_ReturnsProducedMinusHidden ==
    \A c \in Containers(nodes) :
        /\ Returns(nodes, c) = ProducedBy(c) \ Hidden(nodes, c)
        /\ Returns(nodes, c) \cap Hidden(nodes, c) = {}

---------------------------------------------------------------------------
(* Properties of the tag index *)

RECURSIVE Under(_)
\* n and every component below it
Under(n) ==
    {n} \cup UNION {Under(nodes[n].members[i]) : i \in DOMAIN nodes[n].members}

Leaves(c) == {n \in Under(c) : IsProcessor(nodes[n])}

\* a is declared before b: in some container, a is under a member that
\* comes before the member b is under
DeclaredBefore(a, b) ==
    \E d \in Containers(nodes) : \E i, j \in DOMAIN nodes[d].members :
        /\ i < j
        /\ a \in Under(nodes[d].members[i])
        /\ b \in Under(nodes[d].members[j])

\* flat lists every leaf processor under c once, in depth-first declared
\* order
FlatOf(c, flat) ==
    /\ Range(flat) = Leaves(c)
    /\ \A i, j \in DOMAIN flat : i < j => DeclaredBefore(flat[i], flat[j])

\* group is the processors of flat that carry tag t, in the order of flat
GroupOf(flat, t, group) ==
    /\ Range(group) = {n \in Range(flat) : t \in nodes[n].tags}
    /\ \A i, j \in DOMAIN group : i < j =>
          \E a, b \in DOMAIN flat :
              a < b /\ flat[a] = group[i] /\ flat[b] = group[j]

\* the claim for the properties of BaseContainer (base.py)
TagIndexOfBase(c) ==
    /\ FlatOf(c, ProcessorsFlat(nodes, c))
    /\ AllTags(nodes, c) = UNION {nodes[n].tags : n \in Leaves(c)}
    /\ \A t \in {"t", "u"} :
          GroupOf(ProcessorsFlat(nodes, c), t, Tagged(nodes, c, t))

\* the claim for the processors ModelLayer (layer.py) groups by tag
TagIndexOfLayerPy(c) ==
    /\ LayerPyProcessors(nodes, c).ok
    /\ FlatOf(c, LayerPyProcessors(nodes, c).flat)

\* C25: for every container, at any depth, processors_flat lists every leaf
\* processor under it once in depth-first declared order, the tags that
\* key tagged are the union of the tags of those processors, and tagged[t]
\* is the processors of that list that carry t, in that order.
C25_TagIndex ==
    \A c \in Containers(nodes) : TagIndexOfBase(c) /\ TagIndexOfLayerPy(c)

---------------------------------------------------------------------------
(* Lookup by position (base.py, structure.py, pointer.py) and the cursor   *)
(* (model.py).  Positions are Python positions: 0 is the first member and  *)
(* -1 the last.                                                            *)

\* list.__getitem__: position j exists in a list of n elements
InRange(j, n) == -n <= j /\ j < n

ListItem(ms, j) == IF j >= 0 THEN ms[j + 1] ELSE ms[Len(ms) + j + 1]

Front(s) == SubSeq(s, 1, Len(s) - 1)

Found(n) == [ok |-> TRUE, err |-> "", node |-> n]
NotFound(err) == [ok |-> FALSE, err |-> err, node |-> 0]

\* BaseContainer.__getitem__
BaseContainerGetItem(T, c, j) ==
    IF InRange(j, Len(T[c].members))
    THEN Found(ListItem(T[c].members, j))
    ELSE NotFound("IndexError")

\* Cursor._get_from_container: every failure of component[j], an attempt
\* to index a processor included, is re-raised as an IndexError
RECURSIVE get_from_container(_, _, _)
get_from_container(T, component, path) ==
    IF path = <<>> THEN Found(component)
    ELSE LET r == IF IsContainer(T[component])
                  THEN BaseContainerGetItem(T, component, Head(path))
                  ELSE NotFound("TypeError")
         IN  IF r.ok THEN get_from_container(T, r.node, Tail(path))
             ELSE NotFound("IndexError")

\* Cursor.get_current
get_current(T, cur) == get_from_container(T, Root, cur.index)

\* Cursor.get_index: the path is relative to the cursor's position
get_index(T, cur, path) == get_from_container(T, Root, cur.index \o path)

\* ModelPointer.get_component
RECURSIVE get_component(_, _, _)
get_component(T, component, loc) ==
    IF loc = <<>> THEN Found(component)
    ELSE IF IsContainer(T[component])
         THEN LET r == BaseContainerGetItem(T, component, Head(loc))
              IN  IF r.ok THEN get_component(T, r.node, Tail(loc))
                  ELSE NotFound("IndexError")
         ELSE NotFound("IndexError")

\* the loop of ModelSequence.__getitem__: add_layer() once per missing position
RECURSIVE AddLayers(_, _, _)
AddLayers(T, s, k) ==
    IF k = 0 THEN T
    ELSE AddLayers(Append2(T, s,
             ContainerNode("layer", CountKind(T, T[s].members, "layer") + 1)),
             s, k - 1)

\* the outcome of a lookup that leaves the tree as it is
Lookup(op, start, path, r) ==
    /\ result' = [NoResult EXCEPT !.op = op, !.target = start, !.arg = path,
                                  !.ok = r.ok, !.err = r.err, !.out = r.node]
    /\ UNCHANGED <<nodes, calls, assigned, cursor>>

\* ModelSequence.__getitem__: a position past the end is created, with every
\* position before it; a position before the start leaves `layer` unbound
ModelSequenceGetItem(s, j) ==
    LET n == Len(nodes[s].members)
        k == IF j >= n THEN j + 1 - n ELSE 0
        T == AddLayers(nodes, s, k)
    IN  /\ nodes[s].kind = "sequence"
        /\ Len(nodes) + k <= MaxNodes
        /\ nodes' = T
        /\ assigned' = assigned \o [i \in 1..k |-> HpFalse]
        /\ result' = [NoResult EXCEPT
                        !.op = "ModelSequence.__getitem__", !.target = s,
                        !.arg = <<j>>,
                        !.ok = (j >= -n),
                        !.err = IF j >= -n THEN "" ELSE "UnboundLocalError",
                        !.out = IF j >= -n THEN ListItem(T[s].members, j) ELSE 0,
                        !.changed = (T # nodes)]
        /\ UNCHANGED <<calls, cursor>>

\* an enter that moves to the first member of the container
enter_first ==
    LET r == get_current(nodes, cursor)
        ms == nodes[r.node].members
        err == IF ~r.ok THEN r.err
               ELSE IF IsContainer(nodes[r.node])
                    THEN (IF Len(ms) = 0 THEN "IndexError" ELSE "")
                    ELSE "TypeError"
    IN  /\ cursor' = IF err = ""
                     THEN [index |-> Append(cursor.index, 0),
                           open |-> Append(cursor.open,
                                       [entered |-> cursor.index, reset |-> FALSE])]
                     ELSE cursor
        /\ result' = [NoResult EXCEPT !.op = "enter", !.target = r.node,
                                      !.arg = cursor.index,
                                      !.ok = (err = ""), !.err = err]
        /\ UNCHANGED <<nodes, calls, assigned>>

\* Cursor.__enter__; the with-block it opens remembers the index it was
\* entered at
enter ==
    LET r == get_current(nodes, cursor)
        ms == nodes[r.node].members
        err == IF ~r.ok THEN r.err
               ELSE IF IsContainer(nodes[r.node])
                    THEN (IF Len(ms) = 0 THEN "IndexError" ELSE "")
                    ELSE "TypeError"
    IN  /\ cursor' = IF err = ""
                     THEN [index |-> Append(cursor.index, Len(ms) - 1),
                           open |-> Append(cursor.open,
                                       [entered |-> cursor.index, reset |-> FALSE])]
                     ELSE cursor
        /\ result' = [NoResult EXCEPT !.op = "enter", !.target = r.node,
                                      !.arg = cursor.index,
                                      !.ok = (err = ""), !.err = err]
        /\ UNCHANGED <<nodes, calls, assigned>>

\* Cursor.__exit__, called at the end of the innermost open with-block
exit ==
    /\ cursor.open # <<>>
    /\ LET err == IF cursor.index = <<>> THEN "IndexError" ELSE ""
       IN  /\ cursor' = [index |-> IF err = "" THEN Front(cursor.index)
                                   ELSE cursor.index,
                         open |-> Front(cursor.open)]
           /\ result' = [NoResult EXCEPT !.op = "exit",
                                         !.arg = cursor.open[Len(cursor.open)],
                                         !.ok = (err = ""), !.err = err]
    /\ UNCHANGED <<nodes, calls, assigned>>

\* Cursor.reset
reset ==
    /\ cursor' = [index |-> <<>>,
                  open |-> [i \in DOMAIN cursor.open |->
                               [cursor.open[i] EXCEPT !.reset = TRUE]]]
    /\ result' = [NoResult EXCEPT !.op = "reset", !.arg = cursor.index]
    /\ UNCHANGED <<nodes, calls, assigned>>

\* raise TypeError("Cannot add component to a non-container component.")
cursor_add_refused(op, target) ==
    /\ result' = [NoResult EXCEPT !.op = op, !.target = target,
                                  !.ok = FALSE, !.err = "TypeError"]
    /\ UNCHANGED <<nodes, calls, assigned, cursor>>

\* Cursor.add_layer: the layer is added to the component the cursor
\* addresses, which has to be a container
cursor_add_layer ==
    LET r == get_current(nodes, cursor)
    IN  IF r.ok /\ IsContainer(nodes[r.node]) THEN add_layer(r.node)
        ELSE cursor_add_refused("add_layer", r.node)

\* Cursor.add_sequence
cursor_add_sequence ==
    LET r == get_current(nodes, cursor)
    IN  IF r.ok /\ IsContainer(nodes[r.node]) THEN add_sequence(r.node)
        ELSE cursor_add_refused("add_sequence", r.node)

\* Cursor.add_function
cursor_add_function(def) ==
    LET r == get_current(nodes, cursor)
    IN  IF r.ok /\ IsContainer(nodes[r.node]) THEN add_function(r.node, def)
        ELSE cursor_add_refused("add_function", r.node)

---------------------------------------------------------------------------
(* Specifications of the cursor and of lookups *)

\* bound on the with-blocks open at one time
MaxBlocks == 3

Positions == {-1, 0, 1}

Paths == {<<i>> : i \in Positions} \cup {<<i, j>> : i \in Positions, j \in Positions}

CursorAddLayer == cursor_add_layer

CursorAddSequence == cursor_add_sequence

CursorAddFunction == \E def \in HiddenFunctionDefs : cursor_add_function(def)

Enter == Len(cursor.open) < MaxBlocks /\ enter

Exit == exit

Reset == reset

ContainerGetItem ==
    \E c \in Containers(nodes), j \in Positions :
        Lookup("BaseContainer.__getitem__", c, <<j>>,
               BaseContainerGetItem(nodes, c, j))

SequenceGetItem ==
    \E s \in Containers(nodes), j \in Positions : ModelSequenceGetItem(s, j)

CursorGetIndex ==
    \E path \in Paths :
        Lookup("Cursor.get_index", get_current(nodes, cursor).node, path,
               get_index(nodes, cursor, path))

PointerGetComponent ==
    \E loc \in Paths :
        Lookup("ModelPointer.get_component", Root, loc,
               get_component(nodes, Root, loc))

NextCursor ==
    \/ CursorAddLayer
    \/ CursorAddSequence
    \/ CursorAddFunction
    \/ Enter
    \/ Exit
    \/ Reset

SpecCursor == Init /\ [][NextCursor]_vars

NextLookup ==
    \/ CursorAddLayer
    \/ CursorAddSequence
    \/ CursorAddFunction
    \/ Enter
    \/ ContainerGetItem
    \/ SequenceGetItem
    \/ CursorGetIndex
    \/ PointerGetComponent

SpecLookup == Init /\ [][NextLookup]_vars

---------------------------------------------------------------------------
(* Properties of lookups *)

LookupOps ==
    {"BaseContainer.__getitem__", "ModelSequence.__getitem__",
     "Cursor.get_index", "ModelPointer.get_component"}

\* the path leads from the component to a member that exists
RECURSIVE Addresses(_, _, _)
Addresses(T, n, path) ==
    \/ path = <<>>
    \/ /\ IsContainer(T[n])
       /\ InRange(Head(path), Len(T[n].members))
       /\ Addresses(T, ListItem(T[n].members, Head(path)), Tail(path))

\* C26: a lookup by an index or a path that addresses a non-existent
\* position raises an error and leaves the tree unchanged.
C26_MissingLookupRaises ==
    [][(result'.op \in LookupOps
          /\ ~Addresses(nodes, result'.target, result'.arg))
       => (~result'.ok /\ nodes' = nodes)]_vars

---------------------------------------------------------------------------
(* Properties of the cursor *)

\* no open with-block has seen a reset since it was entered
Undisturbed == \A i \in DOMAIN cursor.open : ~cursor.open[i].reset

\* every open with-block was entered one level below the one around it, and
\* the index is one level below the innermost
Nested ==
    /\ \A i \in DOMAIN cursor.open :
          /\ Len(cursor.open[i].entered) = Len(cursor.open[1].entered) + i - 1
          /\ cursor.open[i].entered =
                SubSeq(cursor.index, 1, Len(cursor.open[i].entered))
    /\ cursor.open # <<>> =>
          Len(cursor.index) = Len(cursor.open[1].entered) + Len(cursor.open)

\* C29: the cursor position is a balanced stack.  An enter on a non-empty
\* container moves the cursor to its last member; an enter on an empty
\* container or on a processor raises and leaves the index as it was; an
\* exit restores the index of the matching enter; after a reset the cursor
\* addresses the root.
C29_CursorBalancedStack ==
    /\ result.op = "enter" =>
          LET c == result.target
              ms == nodes[c].members
          IN  IF IsContainer(nodes[c]) /\ ms # <<>>
              THEN /\ result.ok
                   /\ cursor.index = Append(result.arg, Len(ms) - 1)
                   /\ get_current(nodes, cursor) = Found(ms[Len(ms)])
              ELSE /\ ~result.ok
                   /\ cursor.index = result.arg
    /\ result.op = "exit" =>
          (~result.arg.reset => result.ok /\ cursor.index = result.arg.entered)
    /\ result.op = "reset" =>
          cursor.index = <<>> /\ get_current(nodes, cursor) = Found(Root)
    /\ Undisturbed => Nested

\* the end of an inner with-block, inside a container of several members
C29_Witness ==
    /\ result.op = "exit" /\ result.ok /\ ~result.arg.reset
    /\ cursor.open # <<>>
    /\ cursor.index = result.arg.entered
    /\ Len(nodes[get_current(nodes, cursor).node].members) > 1

---------------------------------------------------------------------------
(* Properties of a schema processor's returns *)

\* C27: whenever a schema processor's analyze succeeds, the keys of the
\* mapping it returns are the names of its `returns`, whichever branch of
\* the data the input selects.
C27_SchemaReturnsAgree ==
    (result.op = "analyze" /\ result.ok /\ nodes[Root].kind = "schema")
        => DOMAIN result.out = Returns(nodes, Root)

---------------------------------------------------------------------------
(* Frame of reading hidden *)

\* C30: reading `hidden` of a container whose hidden_param is an explicit
\* list changes nothing: the read leaves the tree as it was, and the
\* container's hidden_param stays the list the caller assigned.
C30_HiddenReadIsPure ==
    /\ \A c \in Containers(nodes) :
          assigned[c].b = "list" => nodes[c].hp = assigned[c]
    /\ (result.op = "hidden" /\ assigned[result.target].b = "list")
          => ~result.changed

---------------------------------------------------------------------------
(* The Model of modelsandbox_old (model.py): a list of ProcessLayers, each *)
(* a list of processors.  The root node stands for the Model, its members  *)
(* for the layers.                                                         *)

\* ProcessFunction.parameters / ProcessSchema.parameters
ProcessorParameters(nd) ==
    IF nd.kind = "function" THEN Range(nd.formals)
    ELSE Range(SchemaParameters(nd.schema))

\* ProcessFunction.returns / ProcessSchema.returns
ProcessorReturns(nd) ==
    IF nd.kind = "function" THEN {nd.label}
    ELSE SchemaReturns(nd.label, nd.schema)

\* itertools.chain.from_iterable(self.processors)
ModelProcessors(T) == FlatMembers(T, T[Root].members)

\* Model.returns
ModelReturns(T) ==
    UNION {ProcessorReturns(T[ModelProcessors(T)[i]]) : i \in DOMAIN ModelProcessors(T)}

\* Model.parameters: what the processors consume less what any of them returns
ModelParameters(T) ==
    UNION {ProcessorParameters(T[ModelProcessors(T)[i]]) : i \in DOMAIN ModelProcessors(T)}
        \ ModelReturns(T)

\* Model.tags
ModelTags(T) ==
    UNION {T[ModelProcessors(T)[i]].tags : i \in DOMAIN ModelProcessors(T)}

\* Model.analyze, "Group parameters by tags": under __tag, the values so far
\* of the names returned by the processors that carry the tag
ModelTagged(T, layer_params) ==
    [g \in {"__" \o t : t \in ModelTags(T)} |->
        LET ps == SelectSeq(ModelProcessors(T), LAMBDA q : g \in {"__" \o t : t \in T[q].tags})
            return_keys == UNION {ProcessorReturns(T[ps[i]]) : i \in DOMAIN ps}
        IN  Group(Restrict(layer_params, return_keys))]

\* ProcessFunction.analyze / ProcessSchema.analyze
ProcessorAnalyze(nd, handed) ==
    IF nd.kind = "function" THEN FunctionAnalyze(nd.label, nd.formals, handed)
    ELSE SchemaAnalyze(nd.label, nd.schema, handed)

RECURSIVE ModelProcessorLoop(_, _, _, _, _, _)
\* Model.analyze: for processor in layer._processors
ModelProcessorLoop(T, l, i, layer_params, layer_results, cs) ==
    IF i > Len(T[l].members)
    THEN [ok |-> TRUE, err |-> "", out |-> layer_results, calls |-> cs]
    ELSE LET m == T[l].members[i]
             handed == Restrict(Merge(layer_params, ModelTagged(T, layer_params)),
                                ProcessorParameters(T[m]))
             r == ProcessorAnalyze(T[m], handed)
             cs2 == cs \cup {CallEntry(m, l, handed, r)}
         IN  IF ~r.ok THEN [ok |-> FALSE, err |-> r.err, out |-> EmptyMap, calls |-> cs2]
             ELSE ModelProcessorLoop(T, l, i + 1, layer_params,
                                     Merge(layer_results, r.out), cs2)

RECURSIVE ModelLayerLoop(_, _, _, _)
\* Model.analyze: for layer in self._layers
ModelLayerLoop(T, j, layer_params, cs) ==
    IF j > Len(T[Root].members)
    THEN [ok |-> TRUE, err |-> "", out |-> layer_params, calls |-> cs]
    ELSE LET r == ModelProcessorLoop(T, T[Root].members[j], 1, layer_params, EmptyMap, cs)
         IN  IF ~r.ok THEN r
             ELSE ModelLayerLoop(T, j + 1, Merge(layer_params, r.out), r.calls)

\* Model.analyze
model_analyze(values) ==
    LET r == ModelLayerLoop(nodes, 1, values, {})
    IN  /\ calls' = r.calls
        /\ result' = [NoResult EXCEPT !.op = "Model.analyze", !.target = Root,
                                      !.values = values, !.ok = r.ok,
                                      !.err = r.err, !.out = r.out]
        /\ UNCHANGED <<nodes, assigned, cursor>>

\* Model.add_layer
model_add_layer ==
    /\ Len(nodes) < MaxNodes
    /\ LET nd == ContainerNode("layer", Len(nodes[Root].members) + 1)
       IN  nodes' = Append2(nodes, Root, nd) /\ Built(nd)

\* Model.add_function / Model.add_schema: the processor joins the latest
\* layer; a model without layers gets one first
model_add_processor(nd) ==
    IF nodes[Root].members = <<>>
    THEN LET layer == ContainerNode("layer", 1)
         IN  /\ Len(nodes) + 1 < MaxNodes
             /\ nodes' = Append2(Append2(nodes, Root, layer), Len(nodes) + 1, nd)
             /\ result' = NoResult
             /\ calls' = {}
             /\ assigned' = assigned \o <<layer.hp, nd.hp>>
             /\ UNCHANGED cursor
    ELSE /\ Len(nodes) < MaxNodes
         /\ nodes' = Append2(nodes, nodes[Root].members[Len(nodes[Root].members)], nd)
         /\ Built(nd)

---------------------------------------------------------------------------
(* Specification of the old Model *)

ModelFunctionDefs ==
    { [label |-> "p", formals |-> <<"x">>, tags |-> {"t"}],
      [label |-> "q", formals |-> <<"p">>, tags |-> {}],
      [label |-> "r", formals |-> <<"__t">>, tags |-> {}] }

ModelAddLayer == model_add_layer

ModelAddFunction ==
    \E def \in ModelFunctionDefs :
        model_add_processor(FunctionNode(def.label, def.formals, def.tags))

ModelAddSchema ==
    model_add_processor(SchemaNode(SchemaScalarLeaf, {}))

\* analyze is called with values for exactly the names of Model.parameters
ModelAnalyze ==
    \E values \in [ModelParameters(nodes) -> UNION {ProcValues(k) : k \in ModelParameters(nodes)}] :
        /\ \A k \in DOMAIN values : values[k] \in ProcValues(k)
        /\ model_analyze(values)

NextModel ==
    \/ ModelAddLayer
    \/ ModelAddFunction
    \/ ModelAddSchema
    \/ ModelAnalyze

SpecModel == Init /\ [][NextModel]_vars

---------------------------------------------------------------------------
(* Sufficiency of the advertised parameters *)

\* C28: an analyze called with values for exactly the advertised parameters
\* never fails for a missing parameter: every processor it invokes is
\* handed a value for each of its parameters.
C28_ParametersSufficient ==
    result.op = "Model.analyze" =>
        \A e \in calls :
            ProcessorParameters(nodes[e.node]) \subseteq DOMAIN e.handed

====
